---- MODULE Spec2Model ----
(***************************************************************************)
(* The agent workflow orchestrator of server2: callAgent drives one turn   *)
(* of the two-node graph (agent, tools) over a checkpointed thread, with   *)
(* the model call and the whole graph run each wrapped in retry + timeout. *)
(* Times are in milliseconds.  The external calls (model, tool, checkpoint *)
(* store) take any time, so the clock is kept as the least time that must  *)
(* have passed since the current attempt started: the waits the code       *)
(* itself imposes (model timeouts, backoffs).  One thread is modelled;     *)
(* strings are modelled by their length where only the length is read.  A  *)
(* graph run whose race against the turn timeout is lost is followed no    *)
(* further. A second machine, "replaying a turn", runs callAgent on the    *)
(* real clock and follows the runs that lost the race.                     *)
(***************************************************************************)
EXTENDS Integers, Sequences, FiniteSets, TLC

\* ---- CONFIG (src/server2/src/agent/config/config.ts) ----
MODEL_TIMEOUT == 10000
WORKFLOW_TIMEOUT == 30000
MAX_MODEL_RETRIES == 3
MAX_WORKFLOW_RETRIES == 2
RETRY_FACTOR == 2
RETRY_MIN_TIMEOUT == 1000
RETRY_MAX_TIMEOUT == 5000
RECURSION_LIMIT == 5
MAX_QUERY_LENGTH == 1000
MAX_THREAD_ID_LENGTH == 100

\* ---- bounds of the model ----
\* number of callAgent calls made on the thread
MaxTurns == 1

Min(S) == CHOOSE x \in S : \A y \in S : x <= y

Last(s) == s[Len(s)]

\* ---- messages ----
Msg(role, turn, calls, id, text) ==
    [role |-> role, turn |-> turn, calls |-> calls, id |-> id, text |-> text]

\* new HumanMessage(query) of the given turn
HumanMessage(t) == Msg("user", t, {}, 0, "query")

\* an assistant message: the model's reply or the synthetic failure message
AIMessage(calls, text) == Msg("ai", 0, calls, 0, text)

\* the ToolNode's result message for one tool call
ToolMessage(id) == Msg("tool", 0, {}, id, "result")

SyntheticText == "Error: Unable to process request."

\* ---- error messages ----
ModelTimeoutMsg == "Model timeout"
WorkflowTimeoutMsg == "Workflow timeout"
ApiErrorMsg == "API error"
ModelTimeoutErrorMsg == "Model request timed out"
RecursionErrorMsg == "Recursion limit reached"
CheckpointErrorMsg == "Checkpoint store error"

\* error.message.includes("timeout")
IncludesTimeout(message) == message \in {ModelTimeoutMsg, WorkflowTimeoutMsg}

\* retry's RetryOperation.mainError, which async-retry rejects with when the
\* retries are exhausted: the most frequent error message, the later one on a tie
RECURSIVE mainErrorFrom(_, _, _, _)
mainErrorFrom(errors, i, best, bestCount) ==
    IF i > Len(errors) THEN best
    ELSE LET count == Cardinality({j \in 1..i : errors[j] = errors[i]})
         IN  IF count >= bestCount
             THEN mainErrorFrom(errors, i + 1, errors[i], count)
             ELSE mainErrorFrom(errors, i + 1, best, bestCount)

mainError(errors) == mainErrorFrom(errors, 1, "", 0)

\* the shortest wait before retry number attempt (0-based) of async-retry:
\* min(random * minTimeout * factor^attempt, maxTimeout) with random >= 1
RECURSIVE Pow(_, _)
Pow(b, e) == IF e = 0 THEN 1 ELSE b * Pow(b, e - 1)

Cap(t) == IF t > RETRY_MAX_TIMEOUT THEN RETRY_MAX_TIMEOUT ELSE t

MinBackoff(attempt) == Cap(RETRY_MIN_TIMEOUT * Pow(RETRY_FACTOR, attempt))

ShouldRetryOnceMore(made, retries) == made <= retries

\* retry(...) with the option retries: after a failure another attempt is made
\* while fewer than that many retries were made
ShouldRetry(made, retries) == made < retries

\* ---- validateInputs ----
ValidMsg == "ok"

validateInputsStrict(query, thread_id) ==
    IF query = 0 THEN "Query must be a non-empty string"
    ELSE IF query >= MAX_QUERY_LENGTH THEN "Query too long"
    ELSE IF thread_id = 0 THEN "Thread ID must be a non-empty string"
    ELSE IF thread_id >= MAX_THREAD_ID_LENGTH THEN "Thread ID too long"
    ELSE ValidMsg

\* query and thread_id are the lengths of the two strings
validateInputs(query, thread_id) ==
    IF query = 0 THEN "Query must be a non-empty string"
    ELSE IF query > MAX_QUERY_LENGTH THEN "Query too long"
    ELSE IF thread_id = 0 THEN "Thread ID must be a non-empty string"
    ELSE IF thread_id > MAX_THREAD_ID_LENGTH THEN "Thread ID too long"
    ELSE ValidMsg

\* ---- shouldContinue ----
shouldContinueTruthy(messages) ==
    IF Last(messages).role = "ai" THEN "tools" ELSE "__end__"

shouldContinue(messages) ==
    IF Cardinality(Last(messages).calls) > 0 THEN "tools" ELSE "__end__"

\* ---- callModel's catch block: rethrow as ModelTimeoutError or substitute ----
callModelCatch(error) ==
    IF IncludesTimeout(error) THEN "throw" ELSE "synthetic"

\* ---- callAgent's catch block: the string returned for an error ----
\* ValidationError is thrown by validateInputs only; nothing throws WorkflowError
TimeoutAnswer == "The request timed out. Please try again with a simpler query."

WorkflowAnswer == "There was an issue processing your request. Please try again."

CatchAllAnswer ==
    "Sorry, something went wrong while processing your request. Please try again later."

\* the class of an error, which is told by its message here: only
\* ModelTimeoutError carries its default message
ErrorClass(error) ==
    IF error = ModelTimeoutErrorMsg THEN "ModelTimeoutError" ELSE "Error"

callAgentCatchLeak(error) ==
    IF ErrorClass(error) = "ModelTimeoutError" THEN TimeoutAnswer
    ELSE IF ErrorClass(error) = "WorkflowError" THEN WorkflowAnswer
    ELSE error

callAgentCatch(error) ==
    IF ErrorClass(error) = "ModelTimeoutError" THEN TimeoutAnswer
    ELSE IF ErrorClass(error) = "WorkflowError" THEN WorkflowAnswer
    ELSE CatchAllAnswer

\* the outcome a string returned by the catch block stands for
AnswerKind(text) ==
    IF text = TimeoutAnswer THEN "timeout"
    ELSE IF text = WorkflowAnswer THEN "workflow"
    ELSE "unexpected"

\* ---- the retry around model.invoke ----
\* how an attempt of model.invoke fails: it rejects, or the model timeout
\* rejects first
FailureKinds == {"error", "hang"}

\* what a reply of the model is: a final answer, an empty final answer, or a
\* reply with a tool call
ReplyKinds == {"final", "empty", "call"}

ErrorOf(kind) == IF kind = "hang" THEN ModelTimeoutMsg ELSE ApiErrorMsg

\* what the attempts of one retry(...) do: up to MAX_MODEL_RETRIES failures and
\* then a reply, or MAX_MODEL_RETRIES + 1 failures
ModelPlans ==
    { [fails |-> f, reply |-> o] :
        f \in UNION { [1..n -> FailureKinds] : n \in 0..MAX_MODEL_RETRIES },
        o \in ReplyKinds }
    \cup
    { [fails |-> f, reply |-> "none"] : f \in [1..(MAX_MODEL_RETRIES + 1) -> FailureKinds] }

\* the error messages of the failed attempts, in order
ErrorsOf(fails) == [i \in 1..Len(fails) |-> ErrorOf(fails[i])]

\* the least time the attempts take: every timed-out attempt lasts
\* MODEL_TIMEOUT, and a backoff follows every failure that is retried
RECURSIVE WaitFrom(_, _)
WaitFrom(fails, i) ==
    IF i > Len(fails) THEN 0
    ELSE (IF fails[i] = "hang" THEN MODEL_TIMEOUT ELSE 0)
         + (IF i <= MAX_MODEL_RETRIES THEN MinBackoff(i - 1) ELSE 0)
         + WaitFrom(fails, i + 1)

WaitOf(fails) == WaitFrom(fails, 1)

\* ---- the state ----
VARIABLES
    store,        \* messages of the thread's latest checkpoint
    cpc,          \* callAgent: "idle", "validate", "attempt", "racing", "backoff",
                  \* "returned"
    turn,         \* number of callAgent calls started
    qlen,         \* query.length of the call being validated
    tlen,         \* thread_id.length of the call being validated
    wfTry,        \* attempt number of the turn-level retry (0-based)
    wfErrs,       \* error messages of the failed turn-level attempts
    elapsed,      \* least time passed since the current attempt's timer was armed
    run,          \* the graph run (app.invoke) the current attempt awaits
    result,       \* what the last callAgent call returned
    agentVisits,  \* completed executions of the agent node in the current call
    onlyTimeouts, \* in the current call every attempt of model.invoke ran to the
                  \* model timeout and nothing else made the call wait
    startLen      \* length of the stored history when the current call started

vars == <<store, cpc, turn, qlen, tlen, wfTry, wfErrs, elapsed, run, result,
          agentVisits, onlyTimeouts, startLen>>

\* the state of a replayed turn (see "replaying a turn" below)
VARIABLES
    script,       \* what the model does at its first, second, ... call
    rep,          \* the replay under way: 1, 2; 3 when both have returned; 0: none
    now,          \* the clock of the replay, in ms since callAgent was called
    calls,        \* model calls made in the replay so far
    hist,         \* messages of the thread's latest checkpoint in the replay
    main,         \* callAgent in the replay: its turn-level retry and result
    runs,         \* the graph runs (app.invoke) started in the replay
    outs          \* answer and stored length each finished replay ended with

rvars == <<script, rep, now, calls, hist, main, runs, outs>>

IdleMain == [pc |-> "idle", try |-> 0, errs |-> <<>>, due |-> 0,
             result |-> [kind |-> "none", text |-> ""]]

NoReplay ==
    /\ script = <<>>
    /\ rep = 0
    /\ now = 0
    /\ calls = 0
    /\ hist = <<>>
    /\ main = IdleMain
    /\ runs = <<>>
    /\ outs = <<>>

\* the state of the HTTP routes (see "the chat routes" below)
VARIABLES
    reqs,         \* the requests: route, parameters, position of the handler
    threads,      \* the stored history of every thread id
    clock         \* Date.now()

hvars == <<reqs, threads, clock>>

NoRoutes ==
    /\ reqs = <<>>
    /\ threads = <<>>
    /\ clock = 0

\* the state of one call of the lookup tool (see "the lookup tool" below)
VARIABLES
    tpc,          \* position of the tool function
    tinput,       \* its input: query and n
    tsteps,       \* how each awaited call ended: "" (not made), "ok" or the error message
    hits,         \* the search result
    fetched,      \* per hit, how its findOne ended: "pending", "doc", "null" or the error message
    order,        \* the hits in the order their findOne completed
    results,      \* the array Promise.all fills
    tout          \* what the tool returned

tvars == <<tpc, tinput, tsteps, hits, fetched, order, results, tout>>

NoTool ==
    /\ tpc = "idle"
    /\ tinput = [query |-> "", n |-> 0]
    /\ tsteps = [embed |-> "", search |-> "", probe |-> ""]
    /\ hits = <<>>
    /\ fetched = <<>>
    /\ order = <<>>
    /\ results = <<>>
    /\ tout = [kind |-> "none"]

\* the state of the server process (see "the server" below)
VARIABLES
    env,          \* process.env: the required variables that are set, NODE_ENV
    boot,         \* startup: position, the MongoDB client, listening, the error
    res,          \* the response object of the last middleware or handler call
    herr,         \* the error object last constructed
    health        \* the GET /health request in progress

svars == <<env, boot, res, herr, health>>

NoBoot == [pc |-> "load", client |-> "none", validated |-> FALSE, pinged |-> FALSE,
           listening |-> FALSE, error |-> [text |-> "", names |-> <<>>]]

NoRes == [handler |-> "", method |-> "", arg |-> "", headers |-> {}, status |-> 0,
          sends |-> 0, nextCalls |-> 0,
          body |-> [error |-> "", message |-> "", mongo |-> "", qdrant |-> ""]]

NoError == [name |-> "", message |-> "", instanceOf |-> {}]

NoHealth == [pc |-> "none", status |-> "", mongo |-> "", qdrant |-> ""]

NoServer ==
    /\ env = [set |-> {}, NODE_ENV |-> ""]
    /\ boot = NoBoot
    /\ res = NoRes
    /\ herr = NoError
    /\ health = NoHealth

\* the state of the chat client (see "the chat client" below)
VARIABLES
    cstate,       \* the component's state: isLoading, threadId, inputValue
    rendered,     \* the state the last render captured in its closures
    flight,       \* the requests sent and not yet settled
    sends         \* number of requests sent

cvars == <<cstate, rendered, flight, sends>>

NoClientState == [isLoading |-> FALSE, threadId |-> 0, inputValue |-> ""]

NoClient ==
    /\ cstate = NoClientState
    /\ rendered = NoClientState
    /\ flight = <<>>
    /\ sends = 0

\* what each machine leaves alone
notTurn == <<rvars, hvars, tvars, svars, cvars>>

notReplay == <<vars, hvars, tvars, svars, cvars>>

notRoutes == <<vars, rvars, tvars, svars, cvars>>

notTool == <<vars, rvars, hvars, svars, cvars>>

notServer == <<vars, rvars, hvars, tvars, cvars>>

notClient == <<vars, rvars, hvars, tvars, svars>>

allvars == <<vars, rvars, hvars, tvars, svars, cvars>>

\* no graph run
NoRun == [st |-> "none", msgs |-> <<>>, steps |-> 0, err |-> "", exhausted |-> ""]

NoResult == [kind |-> "none", text |-> "", steps |-> 0]

\* lengths of the strings callAgent is called with
QueryLengths == {0, 1, MAX_QUERY_LENGTH, MAX_QUERY_LENGTH + 1}

ThreadIdLengths == {0, 1, MAX_THREAD_ID_LENGTH, MAX_THREAD_ID_LENGTH + 1}

\* what a checkpoint read or write does
StoreOutcomes == {"ok", "fail"}

InitTurn ==
    /\ store = <<>>
    /\ cpc = "idle"
    /\ turn = 0
    /\ qlen = 0
    /\ tlen = 0
    /\ wfTry = 0
    /\ wfErrs = <<>>
    /\ elapsed = 0
    /\ run = NoRun
    /\ result = NoResult
    /\ agentVisits = 0
    /\ onlyTimeouts = TRUE
    /\ startLen = 0

Init == InitTurn /\ NoReplay /\ NoRoutes /\ NoTool /\ NoServer /\ NoClient

\* ---- the graph run (app.invoke) ----
\* the unconditional edges of the graph
EdgesToolsToEnd == [start |-> "agent", tools |-> "__end__"]

Edges == [start |-> "agent", tools |-> "agent"]

\* a node or the checkpointer throws: app.invoke rejects
ThrowInRun(message, mainErr) ==
    [NoRun EXCEPT !.st = "failed", !.err = message, !.exhausted = mainErr]

\* the reducer x.concat(y), the next node by the graph's edges
AfterStep(added, next, mainErr) ==
    [st |-> next, msgs |-> run.msgs \o added, steps |-> run.steps + 1, err |-> "",
     exhausted |-> mainErr]

\* a superstep ends: channel update, checkpoint write, then the edge out of the node
FinishStep(added, next, mainErr) ==
    \E w \in StoreOutcomes :
        IF w = "ok"
        THEN /\ store' = run.msgs \o added
             /\ run' = AfterStep(added, next, mainErr)
        ELSE /\ store' = store
             /\ run' = ThrowInRun(CheckpointErrorMsg, mainErr)

\* the reply of the model, its tool call named by its position in the history
ModelReply(messages, reply) ==
    IF reply = "call" THEN AIMessage({Len(messages) + 1}, "")
    ELSE IF reply = "final" THEN AIMessage({}, "answer")
    ELSE AIMessage({}, "")

\* the agent node: callModel with its retry around model.invoke raced against
\* the model timeout, and its catch block when the retries are exhausted
callModel ==
    /\ UNCHANGED notTurn
    /\ cpc = "racing"
    /\ run.st = "agent"
    /\ run.steps < RECURSION_LIMIT
    /\ agentVisits' = agentVisits + 1
    /\ \E plan \in ModelPlans :
          /\ elapsed + WaitOf(plan.fails) <= WORKFLOW_TIMEOUT
          /\ elapsed' = elapsed + WaitOf(plan.fails)
          /\ onlyTimeouts' = (onlyTimeouts /\ plan.reply = "none"
                                /\ \A i \in 1..Len(plan.fails) : plan.fails[i] = "hang")
          /\ IF plan.reply # "none"
             THEN LET added == <<ModelReply(run.msgs, plan.reply)>> IN
                  FinishStep(added, shouldContinue(run.msgs \o added), "")
             ELSE LET error == mainError(ErrorsOf(plan.fails)) IN
                  IF callModelCatch(error) = "throw"
                  THEN /\ run' = ThrowInRun(ModelTimeoutErrorMsg, error)
                       /\ UNCHANGED <<store>>
                  ELSE LET added == <<AIMessage({}, SyntheticText)>> IN
                       FinishStep(added, shouldContinue(run.msgs \o added), error)
    /\ UNCHANGED <<cpc, turn, qlen, tlen, wfTry, wfErrs, result, startLen>>

\* the tools node (ToolNode): every tool call of the last message is invoked and
\* answered by a tool message with its id
ToolResults(message) ==
    LET RECURSIVE seqOf(_)
        seqOf(ids) == IF ids = {} THEN <<>>
                      ELSE LET i == Min(ids) IN <<ToolMessage(i)>> \o seqOf(ids \ {i})
    IN  seqOf(message.calls)

toolNode ==
    /\ UNCHANGED notTurn
    /\ cpc = "racing"
    /\ run.st = "tools"
    /\ run.steps <= RECURSION_LIMIT
    /\ FinishStep(ToolResults(Last(run.msgs)), Edges.tools, "")
    /\ UNCHANGED <<cpc, turn, qlen, tlen, wfTry, wfErrs, elapsed, result, agentVisits,
                   onlyTimeouts, startLen>>

\* the recursion limit: a superstep is due and the limit is used up.  Whether
\* the superstep after the limit still runs before the error differs between
\* versions of the graph library, so both happen.
RecursionError ==
    /\ UNCHANGED notTurn
    /\ cpc = "racing"
    /\ run.st \in {"agent", "tools"}
    /\ run.steps >= RECURSION_LIMIT
    /\ run' = ThrowInRun(RecursionErrorMsg, "")
    /\ UNCHANGED <<store, cpc, turn, qlen, tlen, wfTry, wfErrs, elapsed, result,
                   agentVisits, onlyTimeouts, startLen>>

\* ---- callAgent ----
\* callAgent is called with a query and a thread id
callAgent ==
    /\ UNCHANGED notTurn
    /\ cpc \in {"idle", "returned"}
    /\ turn < MaxTurns
    /\ turn' = turn + 1
    /\ cpc' = "validate"
    /\ \E q \in QueryLengths, t \in ThreadIdLengths : qlen' = q /\ tlen' = t
    /\ result' = NoResult
    /\ wfTry' = 0
    /\ wfErrs' = <<>>
    /\ elapsed' = 0
    /\ run' = NoRun
    /\ agentVisits' = 0
    /\ onlyTimeouts' = TRUE
    /\ startLen' = Len(store)
    /\ UNCHANGED <<store>>

\* validateInputs throws into the catch block, which returns the validation
\* text, or the turn-level retry begins (the strings are read no further)
validate ==
    /\ UNCHANGED notTurn
    /\ cpc = "validate"
    /\ IF validateInputs(qlen, tlen) # ValidMsg
       THEN /\ cpc' = "returned"
            /\ result' = [kind |-> "validation", text |-> validateInputs(qlen, tlen),
                          steps |-> 0]
            /\ UNCHANGED <<qlen, tlen>>
       ELSE /\ cpc' = "attempt"
            /\ qlen' = 0
            /\ tlen' = 0
            /\ UNCHANGED <<result>>
    /\ UNCHANGED <<store, turn, wfTry, wfErrs, elapsed, run, agentVisits, onlyTimeouts,
                   startLen>>

\* one attempt of the turn-level retry starts: the timeoutPromise is armed and
\* app.invoke loads the thread's checkpoint, appends the input message, saves
\* the checkpoint, and the agent node is due
invoke ==
    /\ UNCHANGED notTurn
    /\ cpc = "attempt"
    /\ cpc' = "racing"
    /\ elapsed' = 0
    /\ \E rd \in StoreOutcomes, wr \in StoreOutcomes :
          IF rd = "ok" /\ wr = "ok"
          THEN /\ store' = store \o <<HumanMessage(turn)>>
               /\ run' = [NoRun EXCEPT !.st = Edges.start,
                                       !.msgs = store \o <<HumanMessage(turn)>>]
          ELSE /\ store' = store
               /\ run' = ThrowInRun(CheckpointErrorMsg, "")
    /\ UNCHANGED <<turn, qlen, tlen, wfTry, wfErrs, result, agentVisits, onlyTimeouts,
                   startLen>>

\* a failed attempt of the turn-level retry: back off, or, with the retries
\* exhausted, callAgent's catch block.  The graph run is followed no further.
AttemptFailed(message) ==
    LET errors == Append(wfErrs, message) IN
    /\ wfErrs' = errors
    /\ run' = NoRun
    /\ elapsed' = 0
    /\ IF ShouldRetry(wfTry, MAX_WORKFLOW_RETRIES)
       THEN /\ cpc' = "backoff"
            /\ UNCHANGED <<result>>
       ELSE /\ cpc' = "returned"
            /\ result' = [kind |-> AnswerKind(callAgentCatch(mainError(errors))),
                          text |-> callAgentCatch(mainError(errors)), steps |-> 0]

\* app.invoke resolves first: the content of the last message is returned
invokeResolved ==
    /\ UNCHANGED notTurn
    /\ cpc = "racing"
    /\ run.st = "__end__"
    /\ cpc' = "returned"
    /\ result' = [kind |-> "answer", text |-> Last(run.msgs).text, steps |-> run.steps]
    /\ run' = NoRun
    /\ elapsed' = 0
    /\ UNCHANGED <<store, turn, qlen, tlen, wfTry, wfErrs, agentVisits, onlyTimeouts,
                   startLen>>

\* app.invoke rejects first
invokeRejected ==
    /\ UNCHANGED notTurn
    /\ cpc = "racing"
    /\ run.st = "failed"
    /\ AttemptFailed(run.err)
    /\ UNCHANGED <<store, turn, qlen, tlen, wfTry, agentVisits, onlyTimeouts, startLen>>

\* the model attempts of a callModel that all run to the model timeout, as far
\* as they end before the turn timeout: none, one, two, ... of them
HangsBefore(deadline) ==
    {k \in 0..MAX_MODEL_RETRIES :
        LET fails == [i \in 1..k |-> "hang"] IN
        /\ elapsed + WaitOf(fails) <= deadline
        /\ elapsed + WaitOf(fails) + MODEL_TIMEOUT > deadline}

\* what is pending when the timeoutPromise rejects: a model attempt that, like
\* the attempts of this callModel before it, gets no reply from the model, the
\* one invocation ToolNode makes of a tool that does not complete, or a slow
\* reply, tool or checkpoint access
PendingKindsModelOnly == {"model timeout"}

PendingKinds == {"model timeout", "tool", "slow"}

\* the timeoutPromise rejects first: a checkpoint access, a model call or a
\* tool call of the run is still pending
workflowTimeout ==
    /\ UNCHANGED notTurn
    /\ cpc = "racing"
    /\ run.st \in {"agent", "tools"}
    /\ \E pending \in PendingKinds :
          /\ pending = "model timeout" =>
                /\ run.st = "agent"
                /\ run.steps < RECURSION_LIMIT
                /\ HangsBefore(WORKFLOW_TIMEOUT) # {}
          /\ pending = "tool" => run.st = "tools"
          /\ onlyTimeouts' = (onlyTimeouts /\ pending = "model timeout")
    /\ AttemptFailed(WorkflowTimeoutMsg)
    /\ UNCHANGED <<store, turn, qlen, tlen, wfTry, agentVisits, startLen>>

\* the backoff of the turn-level retry ends
retryAttempt ==
    /\ UNCHANGED notTurn
    /\ cpc = "backoff"
    /\ cpc' = "attempt"
    /\ wfTry' = wfTry + 1
    /\ UNCHANGED <<store, turn, qlen, tlen, wfErrs, elapsed, run, result, agentVisits,
                   onlyTimeouts, startLen>>

Next ==
    \/ callAgent
    \/ validate
    \/ invoke
    \/ invokeResolved
    \/ invokeRejected
    \/ workflowTimeout
    \/ retryAttempt
    \/ callModel
    \/ toolNode
    \/ RecursionError

Spec == Init /\ [][Next]_allvars

\* The timers of callAgent fire and its promises settle: the turn timeout, the
\* backoff, the continuation after app.invoke settles, the recursion check of
\* the graph.  Nothing is assumed of the model, the tools and the store, which
\* may never respond: callModel and toolNode need not happen.
Fairness ==
    /\ WF_allvars(validate)
    /\ WF_allvars(invoke)
    /\ WF_allvars(invokeResolved)
    /\ WF_allvars(invokeRejected)
    /\ WF_allvars(workflowTimeout)
    /\ WF_allvars(retryAttempt)
    /\ WF_allvars(RecursionError)

FairSpec == Spec /\ Fairness

\* ---- replaying a turn: callAgent on a clock ----
\* One turn is run twice on a new thread, against a model that does the same
\* at its k-th call in both runs.  The clock is the real one: a reply or an
\* error of the model arrives at once, a call without reply ends at the model
\* timeout, and every backoff is a wait that the retry's random factor (1 to 2)
\* allows.  The query is valid, the checkpoint store works, the model asks for
\* no tool, and a graph run that lost the race against the turn timeout goes
\* on, as nothing cancels it.
MaxScript == 4

ModelOutcomes == {"hang", "error", "final"}

Scripts == UNION {[1..n -> ModelOutcomes] : n \in 0..MaxScript}

\* the model at its k-th call; it replies once the script is used up
ScriptAt(k) == IF k <= Len(script) THEN script[k] ELSE "final"

\* waits before retry number attempt + 1: the least, the greatest, one between
BackoffsUncapped(attempt) ==
    {(f * RETRY_MIN_TIMEOUT * Pow(RETRY_FACTOR, attempt)) \div 2 : f \in {2, 3, 4}}

\* random factors 1, 1.5 and 2
Backoffs(attempt) ==
    {Cap((f * RETRY_MIN_TIMEOUT * Pow(RETRY_FACTOR, attempt)) \div 2) : f \in {2, 3, 4}}

\* the timers and calls that are pending, and the first of them to fire
Dues ==
    {runs[i].due : i \in {j \in DOMAIN runs : runs[j].st \in {"call", "pending"}}}
    \cup (IF main.pc \in {"racing", "backoff"} THEN {main.due} ELSE {})

IsDue(t) == Dues # {} /\ t = Min(Dues)

\* the graph run that callAgent awaits
IsCurrent(i) == main.pc = "racing" /\ i = Len(runs)

ReplayInit ==
    /\ InitTurn
    /\ script \in Scripts
    /\ rep = 1
    /\ now = 0
    /\ calls = 0
    /\ hist = <<>>
    /\ main = IdleMain
    /\ runs = <<>>
    /\ outs = <<>>
    /\ NoRoutes
    /\ NoTool
    /\ NoServer
    /\ NoClient

\* an attempt of the turn-level retry failed at time t
AttemptFailedAt(message, t) ==
    LET errors == Append(main.errs, message) IN
    IF ShouldRetry(main.try, MAX_WORKFLOW_RETRIES)
    THEN \E wait \in Backoffs(main.try) :
            main' = [main EXCEPT !.pc = "backoff", !.errs = errors, !.due = t + wait]
    ELSE main' = [main EXCEPT !.pc = "returned", !.errs = errors,
                              !.result =
                                  [kind |-> AnswerKind(callAgentCatch(mainError(errors))),
                                   text |-> callAgentCatch(mainError(errors))]]

\* the agent node of run i returns a message at time t: channel update,
\* checkpoint write, the edge out of the node; app.invoke resolves
RunEnds(i, r, message) ==
    LET messages == r.msgs \o <<message>> IN
    /\ shouldContinue(messages) = "__end__"
    /\ hist' = messages
    /\ runs' = [runs EXCEPT ![i] = [r EXCEPT !.st = "done", !.msgs = messages]]
    /\ IF IsCurrent(i)
       THEN main' = [main EXCEPT !.pc = "returned",
                                 !.result = [kind |-> "answer", text |-> message.text]]
       ELSE UNCHANGED main

\* an attempt of model.invoke in run i failed at time t: the retry of callModel
\* backs off, or is exhausted and callModel's catch block runs
ModelFailed(i, r, message, t) ==
    LET errors == Append(r.merrs, message) IN
    IF ShouldRetry(r.mtry, MAX_MODEL_RETRIES)
    THEN /\ \E wait \in Backoffs(r.mtry) :
              runs' = [runs EXCEPT ![i] = [r EXCEPT !.st = "call", !.mtry = @ + 1,
                                                    !.merrs = errors, !.due = t + wait,
                                                    !.waits = Append(@, wait)]]
         /\ UNCHANGED <<hist, main>>
    ELSE LET surfaced == mainError(errors)
             x == [r EXCEPT !.merrs = errors, !.surfaced = surfaced]
         IN  IF callModelCatch(surfaced) = "throw"
             THEN /\ runs' = [runs EXCEPT ![i] = [x EXCEPT !.st = "failed"]]
                  /\ UNCHANGED hist
                  /\ IF IsCurrent(i) THEN AttemptFailedAt(ModelTimeoutErrorMsg, t)
                     ELSE UNCHANGED main
             ELSE RunEnds(i, x, AIMessage({}, SyntheticText))

\* callAgent is called, or the backoff of the turn-level retry ends: the
\* timeoutPromise is armed and app.invoke loads the checkpoint, appends the
\* input message, saves the checkpoint, and the agent node is due
replayInvoke ==
    /\ rep \in {1, 2}
    /\ main.pc \in {"idle", "backoff"}
    /\ main.pc = "backoff" => IsDue(main.due)
    /\ LET t == IF main.pc = "idle" THEN 0 ELSE main.due
           input == hist \o <<HumanMessage(1)>>
       IN  /\ now' = t
           /\ hist' = input
           /\ runs' = Append(runs, [st |-> "call", msgs |-> input, mtry |-> 0,
                                    merrs |-> <<>>, due |-> t, tries |-> 0,
                                    waits |-> <<>>, surfaced |-> ""])
           /\ main' = [main EXCEPT !.pc = "racing",
                                   !.try = IF main.pc = "idle" THEN 0 ELSE @ + 1,
                                   !.due = t + WORKFLOW_TIMEOUT]
    /\ UNCHANGED <<script, rep, calls, outs>>
    /\ UNCHANGED notReplay

\* an attempt of model.invoke in a graph run, raced against the model timeout
replayModelInvoke ==
    /\ rep \in {1, 2}
    /\ \E i \in DOMAIN runs :
          /\ runs[i].st = "call"
          /\ IsDue(runs[i].due)
          /\ now' = runs[i].due
          /\ calls' = calls + 1
          /\ LET r == [runs[i] EXCEPT !.tries = @ + 1] IN
             IF ScriptAt(calls + 1) = "final"
             THEN RunEnds(i, r, AIMessage({}, "answer"))
             ELSE IF ScriptAt(calls + 1) = "error"
             THEN ModelFailed(i, r, ApiErrorMsg, r.due)
             ELSE /\ runs' = [runs EXCEPT ![i] = [r EXCEPT !.st = "pending",
                                                           !.due = @ + MODEL_TIMEOUT]]
                  /\ UNCHANGED <<hist, main>>
    /\ UNCHANGED <<script, rep, outs>>
    /\ UNCHANGED notReplay

\* the model timeout of a pending attempt fires
replayModelTimeout ==
    /\ rep \in {1, 2}
    /\ \E i \in DOMAIN runs :
          /\ runs[i].st = "pending"
          /\ IsDue(runs[i].due)
          /\ now' = runs[i].due
          /\ ModelFailed(i, runs[i], ModelTimeoutMsg, runs[i].due)
    /\ UNCHANGED <<script, rep, calls, outs>>
    /\ UNCHANGED notReplay

\* the turn timeout fires while app.invoke is pending
replayWorkflowTimeout ==
    /\ rep \in {1, 2}
    /\ main.pc = "racing"
    /\ IsDue(main.due)
    /\ now' = main.due
    /\ AttemptFailedAt(WorkflowTimeoutMsg, main.due)
    /\ UNCHANGED <<script, rep, calls, hist, runs, outs>>
    /\ UNCHANGED notReplay

\* callAgent returned: its answer and the stored length are noted, and the
\* turn is replayed from the same checkpoint
replayReturn ==
    /\ rep \in {1, 2}
    /\ main.pc = "returned"
    /\ outs' = Append(outs, [kind |-> main.result.kind, text |-> main.result.text,
                             length |-> Len(hist)])
    /\ rep' = rep + 1
    /\ now' = 0
    /\ calls' = 0
    /\ hist' = <<>>
    /\ main' = IdleMain
    /\ runs' = <<>>
    /\ UNCHANGED script
    /\ UNCHANGED notReplay

ReplayNext ==
    \/ replayInvoke
    \/ replayModelInvoke
    \/ replayModelTimeout
    \/ replayWorkflowTimeout
    \/ replayReturn

ReplaySpec == ReplayInit /\ [][ReplayNext]_allvars

\* ---- the chat routes: POST /chat and POST /chat/:threadId ----
\* Each request is handled by an async handler; the handlers of different
\* requests interleave at every await.  A turn is callAgent cut down to what
\* the routes and the checkpoint store see of it: app.invoke loads the thread's
\* checkpoint, appends the user message and saves; the run ends and saves the
\* history it holds with the final message, or fails; callAgent returns a string.
MaxRequests == 2

MaxClock == 2

Requests == 1..MaxRequests

Routes == {"/chat", "/chat/:threadId"}

\* thread ids: the strings Date.now().toString() gives at the clock values, a
\* string of MAX_THREAD_ID_LENGTH characters, and a longer one
MaxLengthId == MaxClock + 1

LongId == MaxClock + 2

ThreadIds == 1..LongId

\* threadId.length
IdLength(id) ==
    IF id = MaxLengthId THEN MAX_THREAD_ID_LENGTH
    ELSE IF id = LongId THEN MAX_THREAD_ID_LENGTH + 1
    ELSE 13

NoRequest == [pc |-> "none", route |-> "", thread |-> 0, mlen |-> 0, view |-> <<>>,
              kind |-> "", status |-> 0, calls |-> 0]

\* chatRequestSchema: message is a string of 1 to 1000 characters
chatRequestSchemaNoMax(mlen) == mlen >= 1

chatRequestSchema(mlen) == mlen >= 1 /\ mlen <= 1000

\* threadIdSchema: a string of 1 to 100 characters
threadIdSchema(len) == len >= 1 /\ len <= 100

\* what a turn that got past validateInputs ends with
TurnKinds == {"answer", "timeout", "unexpected"}

RouteInit ==
    /\ InitTurn
    /\ NoReplay
    /\ reqs = [r \in Requests |-> NoRequest]
    /\ threads = [id \in ThreadIds |-> <<>>]
    /\ clock = 1
    /\ NoTool
    /\ NoServer
    /\ NoClient

\* a request arrives
routeReceive ==
    /\ \E r \in Requests, route \in Routes, id \in ThreadIds, mlen \in QueryLengths :
          /\ reqs[r].pc = "none"
          /\ route = "/chat" => id = 1
          /\ reqs' = [reqs EXCEPT ![r] = [@ EXCEPT !.pc = "received", !.route = route,
                                                   !.thread = IF route = "/chat" THEN 0 ELSE id,
                                                   !.mlen = mlen]]
    /\ UNCHANGED <<threads, clock>>
    /\ UNCHANGED notRoutes

\* the handler up to its await: the schemas are parsed (a ZodError is answered
\* with 400), the thread id is taken from the clock or the path, and callAgent
\* is called, which runs validateInputs
routeHandle ==
    /\ \E r \in Requests :
          /\ reqs[r].pc = "received"
          /\ LET q == reqs[r]
                 id == IF q.route = "/chat" THEN clock ELSE q.thread
                 parsed == /\ q.route = "/chat/:threadId" => threadIdSchema(IdLength(id))
                           /\ chatRequestSchema(q.mlen)
             IN  reqs' = [reqs EXCEPT ![r] =
                    IF ~parsed
                    THEN [q EXCEPT !.pc = "responded", !.status = 400]
                    ELSE IF validateInputs(q.mlen, IdLength(id)) # ValidMsg
                    THEN [q EXCEPT !.pc = "returned", !.thread = id, !.kind = "validation",
                                   !.calls = @ + 1]
                    ELSE [q EXCEPT !.pc = "turn", !.thread = id, !.calls = @ + 1]]
    /\ UNCHANGED <<threads, clock>>
    /\ UNCHANGED notRoutes

\* the checkpoint a run reads and writes: that of configurable.thread_id
CheckpointKeyShared(thread_id) == 1

CheckpointKey(thread_id) == thread_id

\* app.invoke of the turn loads the checkpoint, appends the input message and
\* saves the checkpoint
routeLoad ==
    /\ \E r \in Requests :
          /\ reqs[r].pc = "turn"
          /\ LET input == threads[CheckpointKey(reqs[r].thread)]
                              \o <<[role |-> "user", req |-> r]>>
             IN  /\ threads' = [threads EXCEPT ![CheckpointKey(reqs[r].thread)] = input]
                 /\ reqs' = [reqs EXCEPT ![r] = [@ EXCEPT !.pc = "running",
                                                          !.view = input]]
    /\ UNCHANGED clock
    /\ UNCHANGED notRoutes

\* the turn ends: the run saves the history it holds with the final message
\* and callAgent returns it, or the turn failed and callAgent returns the
\* string of its catch block
routeSave ==
    /\ \E r \in Requests, kind \in TurnKinds :
          /\ reqs[r].pc = "running"
          /\ reqs' = [reqs EXCEPT ![r] = [@ EXCEPT !.pc = "returned", !.kind = kind]]
          /\ threads' = IF kind = "answer"
                        THEN [threads EXCEPT ![CheckpointKey(reqs[r].thread)] =
                                 reqs[r].view \o <<[role |-> "ai", req |-> r]>>]
                        ELSE threads
    /\ UNCHANGED clock
    /\ UNCHANGED notRoutes

\* callAgent returned: res.json({ threadId, response }) or res.json({ response })
routeRespond ==
    /\ \E r \in Requests :
          /\ reqs[r].pc = "returned"
          /\ reqs' = [reqs EXCEPT ![r] = [@ EXCEPT !.pc = "responded", !.status = 200]]
    /\ UNCHANGED <<threads, clock>>
    /\ UNCHANGED notRoutes

\* time passes
routeTick ==
    /\ clock < MaxClock
    /\ clock' = clock + 1
    /\ UNCHANGED <<reqs, threads>>
    /\ UNCHANGED notRoutes

RouteNext ==
    \/ routeReceive
    \/ routeHandle
    \/ routeLoad
    \/ routeSave
    \/ routeRespond
    \/ routeTick

RouteSpec == RouteInit /\ [][RouteNext]_allvars

\* ---- the lookup tool ----
\* One call of employee_lookup: embed the query, search the vector store, probe
\* the collection when nothing was found, fetch the document of every hit and
\* return the JSON text of the outcome.  A JSON text is modelled by the value
\* it denotes, tagged with its kind; a field whose value is undefined is left
\* out, as JSON.stringify does.

MaxHits == 2

DEFAULT_N == 100

Queries == {"q1", "q2"}

\* the inputs the schema of the tool lets through
ToolInputs == [query : Queries, n : {1, DEFAULT_N}]

Undefined == "<undefined>"

NullDoc == [type |-> "null"]

\* the points of the vector store: payload.employee_id, score, payload.summary
HitPool ==
    { [id |-> 1, score |-> 9, summary |-> "s1"],
      [id |-> 2, score |-> 5, summary |-> "s2"],
      [id |-> 3, score |-> 5, summary |-> Undefined] }

EmbedErrors == {"embedding failed"}

SearchErrors == {"search failed"}

ProbeErrors == {"collection not found"}

FindErrors == {"findOne failed"}

\* what a search with limit n can return: distinct points, best score first
SearchResults(n) ==
    { s \in UNION { [1..k -> HitPool] : k \in 0..(IF n < MaxHits THEN n ELSE MaxHits) } :
        /\ \A i, j \in DOMAIN s : i < j => s[i] # s[j] /\ s[i].score >= s[j].score }

\* what findOne can resolve with for an employee id
FindOne(id) ==
    { NullDoc,
      [type |-> "object", employee_id |-> id],
      [type |-> "object", employee_id |-> id, job_details |-> [department |-> "Eng"]] }

\* the computed department field
WithDepartment(employeeData) ==
    IF employeeData = NullDoc THEN employeeData
    ELSE IF "job_details" \in DOMAIN employeeData
         THEN [type |-> "object", employee_id |-> employeeData.employee_id,
               job_details |-> employeeData.job_details,
               department |-> employeeData.job_details.department]
         ELSE employeeData

\* the entry built for a hit
Entry(point, employeeData) ==
    [score |-> point.score, summary |-> point.summary, employee |-> employeeData]

NoEntry == [score |-> 0 - 1, summary |-> Undefined, employee |-> NullDoc]

StringifyEntry(entry) ==
    IF entry.summary = Undefined
    THEN [score |-> entry.score, employee |-> entry.employee]
    ELSE entry

\* JSON.stringify(enrichedResults)
StringifyResults(enrichedResults) ==
    [kind |-> "array",
     items |-> [i \in DOMAIN enrichedResults |-> StringifyEntry(enrichedResults[i])]]

\* JSON.stringify({ error: error.message, query })
StringifyError(message, query) ==
    [kind |-> "object", error |-> message, query |-> query]

\* where the function goes on after the collection-info probe
AfterProbeUncaught(outcome) == IF outcome = "ok" THEN "fetch" ELSE "catch"

AfterProbe(outcome) == "fetch"

\* where Promise.all puts the value of the i-th promise
PlaceResultInOrder(values, ord, i, entry) == [values EXCEPT ![Len(ord) + 1] = entry]

PlaceResult(values, ord, i, entry) == [values EXCEPT ![i] = entry]

toolInvoke ==
    /\ tpc = "idle"
    /\ \E input \in ToolInputs : tinput' = input
    /\ tpc' = "embed"
    /\ UNCHANGED <<tsteps, hits, fetched, order, results, tout>>
    /\ UNCHANGED notTool

\* embeddings.embedQuery resolves or rejects
toolEmbed ==
    /\ tpc = "embed"
    /\ \/ /\ tsteps' = [tsteps EXCEPT !.embed = "ok"]
          /\ tpc' = "search"
          /\ UNCHANGED tout
       \/ \E error \in EmbedErrors :
            /\ tsteps' = [tsteps EXCEPT !.embed = error]
            /\ tout' = StringifyError(error, tinput.query)
            /\ tpc' = "done"
    /\ UNCHANGED <<tinput, hits, fetched, order, results>>
    /\ UNCHANGED notTool

\* qdrantClient.search resolves or rejects; with hits, every findOne is issued
toolSearch ==
    /\ tpc = "search"
    /\ \/ \E searchResult \in SearchResults(tinput.n) :
            /\ tsteps' = [tsteps EXCEPT !.search = "ok"]
            /\ hits' = searchResult
            /\ fetched' = [i \in DOMAIN searchResult |-> "pending"]
            /\ results' = [i \in DOMAIN searchResult |-> NoEntry]
            /\ tpc' = IF Len(searchResult) = 0 THEN "probe" ELSE "fetch"
            /\ UNCHANGED tout
       \/ \E error \in SearchErrors :
            /\ tsteps' = [tsteps EXCEPT !.search = error]
            /\ tout' = StringifyError(error, tinput.query)
            /\ tpc' = "done"
            /\ UNCHANGED <<hits, fetched, results>>
    /\ UNCHANGED <<tinput, order>>
    /\ UNCHANGED notTool

\* qdrantClient.getCollection resolves or rejects; Promise.all of no promises
\* resolves at once
toolProbe ==
    /\ tpc = "probe"
    /\ \E outcome \in {"ok"} \cup ProbeErrors :
        /\ tsteps' = [tsteps EXCEPT !.probe = outcome]
        /\ tout' = IF AfterProbe(outcome) = "fetch"
                   THEN StringifyResults(results)
                   ELSE StringifyError(outcome, tinput.query)
    /\ tpc' = "done"
    /\ UNCHANGED <<tinput, hits, fetched, order, results>>
    /\ UNCHANGED notTool

\* the findOne of one hit resolves; the last one to resolve makes the tool return
toolFound ==
    /\ tpc \in {"fetch", "done"}
    /\ \E i \in DOMAIN hits :
        /\ fetched[i] = "pending"
        /\ \E employeeData \in FindOne(hits[i].id) :
            /\ fetched' = [fetched EXCEPT ![i] = IF employeeData = NullDoc THEN "null" ELSE "doc"]
            /\ results' = PlaceResult(results, order, i,
                                      Entry(hits[i], WithDepartment(employeeData)))
        /\ order' = Append(order, i)
        /\ IF tpc = "fetch" /\ \A j \in DOMAIN hits \ {i} : fetched[j] # "pending"
           THEN /\ tout' = StringifyResults(results')
                /\ tpc' = "done"
           ELSE UNCHANGED <<tout, tpc>>
    /\ UNCHANGED <<tinput, tsteps, hits>>
    /\ UNCHANGED notTool

\* the findOne of one hit rejects: Promise.all rejects with the first rejection
toolFindFailed ==
    /\ tpc \in {"fetch", "done"}
    /\ \E i \in DOMAIN hits :
        /\ fetched[i] = "pending"
        /\ \E error \in FindErrors :
            /\ fetched' = [fetched EXCEPT ![i] = error]
            /\ IF tpc = "fetch"
               THEN /\ tout' = StringifyError(error, tinput.query)
                    /\ tpc' = "done"
               ELSE UNCHANGED <<tout, tpc>>
        /\ order' = Append(order, i)
    /\ UNCHANGED <<tinput, tsteps, hits, results>>
    /\ UNCHANGED notTool

ToolNext ==
    \/ toolInvoke
    \/ toolEmbed
    \/ toolSearch
    \/ toolProbe
    \/ toolFound
    \/ toolFindFailed

ToolSpec == Init /\ [][ToolNext]_allvars

\* ---- the server ----
\* The process from module load to listening, the middleware functions called
\* with a request and a response object, the error classes, and GET /health.

requiredVars == <<"MONGODB_ATLAS_URI", "ANTHROPIC_API_KEY", "OPENAI_API_KEY">>

NodeEnvs == {"development", "production", ""}

Envs == [set : SUBSET {requiredVars[i] : i \in DOMAIN requiredVars}, NODE_ENV : NodeEnvs]

IsMissing(e, varName) == varName \notin e.set

missingVars(e) == SelectSeq(requiredVars, LAMBDA varName : IsMissing(e, varName))

\* the error validateEnvironmentVariables throws: its text and the names joined
\* into it, none when it returns
validateEnvironmentVariables(e) ==
    IF Len(missingVars(e)) > 0
    THEN [text |-> "Missing required environment variables", names |-> missingVars(e)]
    ELSE [text |-> "", names |-> <<>>]

\* the variables read by constructors that run while the modules load: the
\* model of agent.ts and the MongoDB client of index.ts
ReadAtLoad == {"ANTHROPIC_API_KEY", "MONGODB_ATLAS_URI"}

\* the modules load: the constructors run before startServer is called.  What
\* a constructor does with a missing value is the library's business, so it
\* throws or it does not.
loadModule ==
    /\ boot.pc = "load"
    /\ \/ boot' = [boot EXCEPT !.pc = "startServer", !.client = "created"]
       \/ /\ ReadAtLoad \ env.set # {}
          /\ boot' = [boot EXCEPT !.pc = "crashed",
                                  !.error = [text |-> "constructor failed", names |-> <<>>]]
    /\ UNCHANGED <<env, res, herr, health>>
    /\ UNCHANGED notServer

\* startServer up to its first await: the validation, then client.connect()
startServer ==
    /\ boot.pc = "startServer"
    /\ LET error == validateEnvironmentVariables(env) IN
       IF error.text # ""
       THEN boot' = [boot EXCEPT !.pc = "exited", !.error = error]
       ELSE boot' = [boot EXCEPT !.pc = "connect", !.validated = TRUE]
    /\ UNCHANGED <<env, res, herr, health>>
    /\ UNCHANGED notServer

\* client.connect() resolves or rejects
clientConnect ==
    /\ boot.pc = "connect"
    /\ \/ boot' = [boot EXCEPT !.pc = "ping", !.client = "connected"]
       \/ boot' = [boot EXCEPT !.pc = "exited",
                               !.error = [text |-> "connect failed", names |-> <<>>]]
    /\ UNCHANGED <<env, res, herr, health>>
    /\ UNCHANGED notServer

\* the ping resolves, the routes are set up and app.listen is called, or the
\* ping rejects
clientPing ==
    /\ boot.pc = "ping"
    /\ \/ boot' = [boot EXCEPT !.pc = "listening", !.pinged = TRUE, !.listening = TRUE]
       \/ boot' = [boot EXCEPT !.pc = "exited",
                               !.error = [text |-> "ping failed", names |-> <<>>]]
    /\ UNCHANGED <<env, res, herr, health>>
    /\ UNCHANGED notServer

\* -- the error classes: constructor arguments as a sequence, a missing
\* argument takes its default --
Messages == {"", "boom"}

AgentError(args) ==
    [name |-> "AgentError", message |-> args[1], code |-> args[2],
     statusCode |-> IF Len(args) >= 3 THEN args[3] ELSE 500,
     instanceOf |-> {"Error", "AgentError"}]

ValidationError(args) ==
    [AgentError(<<args[1], "VALIDATION_ERROR", 400>>) EXCEPT
        !.name = "ValidationError", !.instanceOf = @ \cup {"ValidationError"}]

ModelTimeoutErrorBare(args) ==
    [AgentError(<<IF Len(args) >= 1 THEN args[1] ELSE ModelTimeoutErrorMsg,
                  "MODEL_TIMEOUT">>) EXCEPT
        !.name = "ModelTimeoutError", !.instanceOf = @ \cup {"ModelTimeoutError"}]

ModelTimeoutError(args) ==
    [AgentError(<<IF Len(args) >= 1 THEN args[1] ELSE ModelTimeoutErrorMsg,
                  "MODEL_TIMEOUT", 504>>) EXCEPT
        !.name = "ModelTimeoutError", !.instanceOf = @ \cup {"ModelTimeoutError"}]

WorkflowError(args) ==
    [AgentError(<<IF Len(args) >= 1 THEN args[1] ELSE "Workflow execution failed",
                  "WORKFLOW_ERROR", 500>>) EXCEPT
        !.name = "WorkflowError", !.instanceOf = @ \cup {"WorkflowError"}]

\* the errors the tests and the program build
Constructed ==
    {AgentError(<<m, "TEST_CODE">>) : m \in Messages}
    \cup {AgentError(<<m, "TEST_CODE", 404>>) : m \in Messages}
    \cup {ValidationError(<<m>>) : m \in Messages}
    \cup {ModelTimeoutError(<<m>>) : m \in Messages} \cup {ModelTimeoutError(<<>>)}
    \cup {WorkflowError(<<m>>) : m \in Messages} \cup {WorkflowError(<<>>)}

\* an error object is constructed
newError ==
    /\ \E error \in Constructed : herr' = error
    /\ UNCHANGED <<env, boot, res, health>>
    /\ UNCHANGED notServer

\* -- the middleware --
Methods == {"GET", "POST", "DELETE", "OPTIONS"}

CorsHeaders ==
    { <<"Access-Control-Allow-Origin", "*">>,
      <<"Access-Control-Allow-Methods", "GET, POST, PUT, DELETE, OPTIONS">>,
      <<"Access-Control-Allow-Headers",
        "Origin, X-Requested-With, Content-Type, Accept, Authorization">> }

\* the response object after corsMiddleware(req, res, next), without the
\* return that ends the preflight branch
corsMiddlewareFallThrough(method) ==
    LET set == [NoRes EXCEPT !.handler = "corsMiddleware", !.method = method,
                             !.headers = CorsHeaders]
        sent == IF method = "OPTIONS" THEN [set EXCEPT !.status = 200, !.sends = 1]
                ELSE set
    IN  [sent EXCEPT !.nextCalls = 1]

\* the response object after corsMiddleware(req, res, next)
corsMiddleware(method) ==
    LET set == [NoRes EXCEPT !.handler = "corsMiddleware", !.method = method,
                             !.headers = CorsHeaders]
    IN  IF method = "OPTIONS"
        THEN [set EXCEPT !.status = 200, !.sends = 1]
        ELSE [set EXCEPT !.nextCalls = 1]

callCorsMiddleware ==
    /\ \E method \in Methods : res' = corsMiddleware(method)
    /\ UNCHANGED <<env, boot, herr, health>>
    /\ UNCHANGED notServer

\* the response object after errorHandler(err, req, res, next), the message
\* kept back in production only
errorHandlerLeaky(err, nodeEnv) ==
    [NoRes EXCEPT !.handler = "errorHandler", !.arg = err.message, !.status = 500,
                  !.sends = 1,
                  !.body = [NoRes.body EXCEPT
                            !.error = "Internal server error",
                            !.message = IF nodeEnv # "production" THEN err.message
                                        ELSE "Something went wrong"]]

\* the response object after errorHandler(err, req, res, next)
errorHandler(err, nodeEnv) ==
    [NoRes EXCEPT !.handler = "errorHandler", !.arg = err.message, !.status = 500,
                  !.sends = 1,
                  !.body = [NoRes.body EXCEPT
                            !.error = "Internal server error",
                            !.message = IF nodeEnv = "development" THEN err.message
                                        ELSE "Something went wrong"]]

\* the error handler is called with the error constructed last
callErrorHandler ==
    /\ herr # NoError
    /\ res' = errorHandler(herr, env.NODE_ENV)
    /\ UNCHANGED <<env, boot, herr, health>>
    /\ UNCHANGED notServer

\* -- GET /health --
CheckOutcomes == {"ok", "failed"}

\* healthStatus.status after a check: a later success overwrites
StatusAfterOverwrite(status, outcome) ==
    IF outcome = "ok" THEN "healthy" ELSE "degraded"

\* healthStatus.status after a check
StatusAfter(status, outcome) ==
    IF outcome = "ok" THEN status ELSE "degraded"

ServiceStatus(outcome) == IF outcome = "ok" THEN "healthy" ELSE "unhealthy"

\* the handler up to the first await of the MongoDB check
healthGet ==
    /\ health.pc = "none"
    /\ health' = [NoHealth EXCEPT !.pc = "mongo", !.status = "healthy"]
    /\ UNCHANGED <<env, boot, res, herr>>
    /\ UNCHANGED notServer

\* the MongoDB check (connect, ping, close) ends; the Qdrant check begins
healthMongo ==
    /\ health.pc = "mongo"
    /\ \E outcome \in CheckOutcomes :
          health' = [health EXCEPT !.pc = "qdrant",
                                   !.mongo = ServiceStatus(outcome),
                                   !.status = StatusAfter(health.status, outcome)]
    /\ UNCHANGED <<env, boot, res, herr>>
    /\ UNCHANGED notServer

\* the Qdrant check ends and the response is sent
healthQdrant ==
    /\ health.pc = "qdrant"
    /\ \E outcome \in CheckOutcomes :
          LET status == StatusAfter(health.status, outcome) IN
          /\ health' = [NoHealth EXCEPT !.status = status, !.mongo = health.mongo,
                                        !.qdrant = ServiceStatus(outcome)]
          /\ res' = [NoRes EXCEPT !.handler = "health", !.method = "GET", !.sends = 1,
                                  !.status = IF status = "healthy" THEN 200 ELSE 503,
                                  !.body = [NoRes.body EXCEPT
                                            !.mongo = health.mongo,
                                            !.qdrant = ServiceStatus(outcome)]]
    /\ UNCHANGED <<env, boot, herr>>
    /\ UNCHANGED notServer

ServerInit ==
    /\ InitTurn
    /\ NoReplay
    /\ NoRoutes
    /\ NoTool
    /\ env \in Envs
    /\ boot = NoBoot
    /\ res = NoRes
    /\ herr = NoError
    /\ health = NoHealth
    /\ NoClient

ServerNext ==
    \/ loadModule
    \/ startServer
    \/ clientConnect
    \/ clientPing
    \/ newError
    \/ callCorsMiddleware
    \/ callErrorHandler
    \/ healthGet
    \/ healthMongo
    \/ healthQdrant

ServerSpec == ServerInit /\ [][ServerNext]_allvars

\* ---- the chat client ----
\* The Chat component: its state, the render whose closures the event
\* handlers run in, and the requests it has sent.  A state update made by a
\* handler is seen by handlers only after the next render.

MaxSends == 3

\* a thread id the server gives to a new conversation: the number of the request
NewThreadId(n) == n

\* the endpoint of a request, named by its thread id, 0 for "/chat"
Endpoint(threadId) == IF threadId # 0 THEN threadId ELSE 0

\* the user types into the text field, which is disabled while loading
clientType ==
    /\ ~rendered.isLoading
    /\ cstate.inputValue = ""
    /\ cstate' = [cstate EXCEPT !.inputValue = "text"]
    /\ UNCHANGED <<rendered, flight, sends>>
    /\ UNCHANGED notClient

\* React renders the component with its current state
clientRender ==
    /\ rendered # cstate
    /\ rendered' = cstate
    /\ UNCHANGED <<cstate, flight, sends>>
    /\ UNCHANGED notClient

\* whether sendMessage, called in a render, gets past its first line
sendMessageGuard(closure) ==
    closure.inputValue # "" /\ ~closure.isLoading

\* sendMessage is called from the button or the Enter key and gets past its
\* guard: up to the await of fetch
sendMessage ==
    /\ sends < MaxSends
    /\ sendMessageGuard(rendered)
    /\ cstate' = [cstate EXCEPT !.inputValue = "", !.isLoading = TRUE]
    /\ flight' = Append(flight, [n |-> sends + 1,
                                 endpoint |-> Endpoint(rendered.threadId),
                                 threadId |-> rendered.threadId,
                                 known |-> cstate.threadId])
    /\ sends' = sends + 1
    /\ UNCHANGED rendered
    /\ UNCHANGED notClient

\* a request settles: the response is read, or fetch or the status check
\* throws; the finally block clears the loading flag
clientSettle ==
    /\ \E k \in DOMAIN flight, ok \in BOOLEAN :
          LET q == flight[k]
              data == IF q.endpoint = 0 THEN NewThreadId(q.n) ELSE 0
          IN  /\ cstate' = [cstate EXCEPT
                      !.isLoading = FALSE,
                      !.threadId = IF ok /\ q.threadId = 0 /\ data # 0 THEN data ELSE @]
              /\ flight' = [i \in 1..(Len(flight) - 1) |->
                               IF i < k THEN flight[i] ELSE flight[i + 1]]
    /\ UNCHANGED <<rendered, sends>>
    /\ UNCHANGED notClient

ClientNext ==
    \/ clientType
    \/ clientRender
    \/ sendMessage
    \/ clientSettle

ClientSpec == Init /\ [][ClientNext]_allvars

\* ---- properties ----
IsInvalid(query, thread_id) ==
    \/ query = 0
    \/ query > MAX_QUERY_LENGTH
    \/ thread_id = 0
    \/ thread_id > MAX_THREAD_ID_LENGTH

\* every tool call of every assistant message is answered by exactly one tool
\* message with its id
Matched(messages) ==
    \A i \in 1..Len(messages) :
        \A c \in messages[i].calls :
            Cardinality({j \in 1..Len(messages) :
                            messages[j].role = "tool" /\ messages[j].id = c}) = 1

Synthetic == AIMessage({}, SyntheticText)

ErrorKinds == {"validation", "timeout", "workflow", "unexpected"}

\* the turn-level attempts failed by no checkpoint error
StoreWorked == \A i \in 1..Len(wfErrs) : wfErrs[i] # CheckpointErrorMsg

\* callAgent returned from a turn in which every model attempt timed out
AllModelCallsTimedOut ==
    /\ cpc = "returned"
    /\ result.kind # "validation"
    /\ onlyTimeouts
    /\ StoreWorked

\* C1: the run is at Tools only when the assistant message just appended
\* carries a tool call, and at End only when it carries none, also when that
\* message is the synthetic failure message
C1_ToolsIffToolCalls ==
    /\ run.st = "tools" =>
          Last(run.msgs).role = "ai" /\ Cardinality(Last(run.msgs).calls) >= 1
    /\ run.st = "__end__" =>
          Last(run.msgs).role = "ai" /\ Last(run.msgs).calls = {}

C1_Witness == run.st = "__end__" /\ Last(run.msgs) = Synthetic /\ run.steps = 3

\* C2: in one callAgent call the agent node is executed at most
\* RECURSION_LIMIT + 1 times
C2_AgentVisitsBounded == agentVisits <= RECURSION_LIMIT + 1

\* C3: callAgent returns a non-empty answer or one of the error outcomes
C3_NonEmptyAnswerOrError ==
    cpc = "returned" =>
        \/ result.kind \in ErrorKinds
        \/ result.kind = "answer" /\ result.text # ""

\* C4: an invalid query or thread id yields the validation outcome at once, with
\* no graph run, no model call, no change of the stored history and no retry;
\* lengths up to and including the maximum pass validation
C4_ValidationFailsFast ==
    [][cpc = "validate" =>
          IF IsInvalid(qlen, tlen)
          THEN /\ cpc' = "returned"
               /\ result'.kind = "validation"
               /\ store' = store
               /\ run' = NoRun
               /\ agentVisits' = 0
               /\ wfTry' = 0
               /\ wfErrs' = <<>>
          ELSE cpc' = "attempt"]_vars

C4_Witness ==
    cpc = "returned" /\ result.kind = "validation" /\ qlen = MAX_QUERY_LENGTH + 1

\* C5: with the retries of the model call exhausted callModel never throws; it
\* appends the synthetic message and the run is at End
C5_NeverPropagates ==
    run.exhausted # "" =>
        /\ run.err # ModelTimeoutErrorMsg
        /\ run.st # "failed" => run.st = "__end__" /\ Last(run.msgs) = Synthetic

\* C6: when every model attempt of the turn timed out, callAgent returns the
\* timeout message
C6_TimeoutAnswer == AllModelCallsTimedOut => result.kind = "timeout"

\* C7: when every model attempt of the turn timed out, the stored history ends
\* with the turn's user message followed by the synthetic failure message
C7_CheckpointHasFailureMessage ==
    AllModelCallsTimedOut =>
        /\ Len(store) >= 2
        /\ store[Len(store) - 1] = HumanMessage(turn)
        /\ Last(store) = Synthetic

\* C8: the history sent to the model has every tool call matched by exactly one
\* tool result
C8_ToolCallsMatched == run.st = "agent" => Matched(run.msgs)

\* C9: a turn that returned an answer after k tool round trips leaves
\* startLen + 2 + 2k messages in the checkpoint
C9_CheckpointLength ==
    (cpc = "returned" /\ result.kind = "answer") =>
        Len(store) = startLen + 2 + 2 * ((result.steps - 1) \div 2)

\* C10: two replays of a turn against the same model script end with the same
\* answer and the same stored length
C10_ReplayDeterministic == rep = 3 => outs[1] = outs[2]

\* C11: no two requests are between the load and the save of a turn on the
\* same thread id at the same time
C11_TurnsSerialized ==
    \A r1, r2 \in DOMAIN reqs :
        (r1 # r2 /\ reqs[r1].pc = "running" /\ reqs[r2].pc = "running")
            => reqs[r1].thread # reqs[r2].thread

C13_ExactSchedule ==
    \A i \in DOMAIN runs :
        \A k \in DOMAIN runs[i].waits : runs[i].waits[k] = MinBackoff(k - 1)

\* the sum of a sequence of waits, and of the first n entries of the schedule
\* with the random factor f
RECURSIVE SumOf(_)
SumOf(waits) == IF waits = <<>> THEN 0 ELSE waits[1] + SumOf(Tail(waits))

RECURSIVE ScheduleSum(_, _)
ScheduleSum(n, f) ==
    IF n = 0 THEN 0
    ELSE Cap(f * RETRY_MIN_TIMEOUT * Pow(RETRY_FACTOR, n - 1)) + ScheduleSum(n - 1, f)

\* C13 as amended: the wait before retry number k is at least
\* min(RETRY_MIN_TIMEOUT * RETRY_FACTOR^k, RETRY_MAX_TIMEOUT), at most
\* min(2 * RETRY_MIN_TIMEOUT * RETRY_FACTOR^k, RETRY_MAX_TIMEOUT), never more
\* than RETRY_MAX_TIMEOUT; there is one wait per failure that was retried, and
\* their sum lies between the sums of the two schedules
C13_WaitWithinJitter ==
    \A i \in DOMAIN runs :
        /\ \A k \in DOMAIN runs[i].waits :
              /\ runs[i].waits[k] >= MinBackoff(k - 1)
              /\ runs[i].waits[k] <= Cap(2 * RETRY_MIN_TIMEOUT * Pow(RETRY_FACTOR, k - 1))
              /\ runs[i].waits[k] <= RETRY_MAX_TIMEOUT
        /\ Len(runs[i].waits) = runs[i].mtry
        /\ (runs[i].st = "done" /\ runs[i].surfaced = "") =>
              Len(runs[i].waits) = Len(runs[i].merrs)
        /\ SumOf(runs[i].waits) >= ScheduleSum(Len(runs[i].waits), 1)
        /\ SumOf(runs[i].waits) <= ScheduleSum(Len(runs[i].waits), 2)

C13_Witness ==
    \E i \in DOMAIN runs :
        /\ runs[i].st = "done"
        /\ runs[i].surfaced = ""
        /\ Len(runs[i].waits) = MAX_MODEL_RETRIES
        /\ SumOf(runs[i].waits) > ScheduleSum(MAX_MODEL_RETRIES, 1)

\* C14: when the retries of a model call are exhausted, the error surfaced is
\* that of the last failed attempt: the timeout if it timed out, its own error
\* otherwise
C14_LastErrorSurfaced ==
    \A i \in DOMAIN runs :
        runs[i].surfaced # "" => runs[i].surfaced = Last(runs[i].merrs)

\* C15: a turn in which the recursion limit was hit stops there: callAgent
\* returns the WorkflowError message after that one graph run, in which the
\* agent node ran at most 3 times
C15_RecursionLimitStops ==
    (cpc = "returned" /\ \E i \in DOMAIN wfErrs : wfErrs[i] = RecursionErrorMsg) =>
        /\ result.text = WorkflowAnswer
        /\ Len(wfErrs) = 1
        /\ agentVisits <= 3

\* C16: the string returned for a turn that failed after its retries is the
\* fixed message of the error's kind and none of the error messages
C16_FixedMessagePerKind ==
    (cpc = "returned" /\ Len(wfErrs) = MAX_WORKFLOW_RETRIES + 1) =>
        /\ result.text \in {TimeoutAnswer, WorkflowAnswer, CatchAllAnswer}
        /\ result.text = (IF ErrorClass(mainError(wfErrs)) = "ModelTimeoutError"
                          THEN TimeoutAnswer ELSE CatchAllAnswer)
        /\ \A i \in DOMAIN wfErrs : result.text # wfErrs[i]

C16_Witness ==
    /\ cpc = "returned"
    /\ Len(wfErrs) = MAX_WORKFLOW_RETRIES + 1
    /\ mainError(wfErrs) = CheckpointErrorMsg
    /\ wfErrs[1] = RecursionErrorMsg
    /\ result.text = CatchAllAnswer

\* C17: a failed turn reaches the caller of callAgent as a typed error, so
\* that the route answers it with the status of its type (400, 504, 500) and
\* never with the status of a successful answer
C17_FailedTurnHasErrorStatus ==
    \A r \in DOMAIN reqs :
        (reqs[r].pc = "responded" /\ reqs[r].kind \in {"validation", "timeout", "unexpected"}) =>
            reqs[r].status = (CASE reqs[r].kind = "validation" -> 400
                                [] reqs[r].kind = "timeout" -> 504
                                [] OTHER -> 500)

\* C18: the lookup tool always returns a JSON text: the empty array when the
\* search found nothing, whether or not the collection-info probe failed, and
\* an object with exactly the fields error and query when the embedding call
\* or the search failed
C18_ToolNeverThrows ==
    tpc = "done" =>
        /\ tout.kind \in {"array", "object"}
        /\ (tsteps.search = "ok" /\ hits = <<>>) =>
              tout = [kind |-> "array", items |-> <<>>]
        /\ \A step \in {"embed", "search"} :
              (tsteps[step] \notin {"", "ok"}) =>
                  /\ tout.kind = "object"
                  /\ DOMAIN tout = {"kind", "error", "query"}
                  /\ tout.error = tsteps[step]
                  /\ tout.query = tinput.query

C18_Witness ==
    /\ tpc = "done"
    /\ hits = <<>>
    /\ tsteps.probe \in ProbeErrors
    /\ tout = [kind |-> "array", items |-> <<>>]

\* C19: when the search found hits, the tool returns an array with one entry
\* per hit that keeps the hit's score and summary, and the entry of a hit whose
\* document lookup failed or found nothing has employee null
C19_LookupFailureIsLocal ==
    (tpc = "done" /\ tsteps.search = "ok" /\ hits # <<>>) =>
        /\ tout.kind = "array"
        /\ Len(tout.items) = Len(hits)
        /\ \A i \in DOMAIN hits :
            /\ tout.items[i].score = hits[i].score
            /\ hits[i].summary # Undefined => tout.items[i].summary = hits[i].summary
            /\ fetched[i] \notin {"pending", "doc"} => tout.items[i].employee = NullDoc

\* C20: the document fetches of all hits are in flight together, and in
\* whatever order they complete, the returned array has one entry per hit and
\* its i-th entry is built from the i-th hit
C20_ResultOrderIsHitOrder ==
    /\ (tpc = "fetch" /\ order = <<>>) => \A i \in DOMAIN hits : fetched[i] = "pending"
    /\ (tpc = "done" /\ tout.kind = "array") =>
        /\ Len(tout.items) = Len(hits)
        /\ \A i \in DOMAIN hits :
            /\ tout.items[i] = StringifyEntry(results[i])
            /\ tout.items[i].score = hits[i].score
            /\ hits[i].summary # Undefined => tout.items[i].summary = hits[i].summary
            /\ hits[i].summary = Undefined => "summary" \notin DOMAIN tout.items[i]
            /\ fetched[i] = "doc" => tout.items[i].employee.employee_id = hits[i].id
            /\ fetched[i] = "null" => tout.items[i].employee = NullDoc

C20_Witness ==
    /\ tpc = "done"
    /\ tout.kind = "array"
    /\ Len(hits) = MaxHits
    /\ order[1] = MaxHits
    /\ \A i \in DOMAIN hits : fetched[i] = "doc"

\* C21: a tool invocation that does not complete is given up at the per-call
\* deadline of the wrapper: when the attempt of a turn ends with the Tools node
\* pending, the invocation, made when the node began, has not been pending
\* longer than that deadline
C21_ToolCallHasOwnDeadline ==
    [][(cpc = "racing" /\ run.st = "tools" /\ cpc' # "racing" /\ run' = NoRun)
          => WORKFLOW_TIMEOUT - elapsed <= MODEL_TIMEOUT]_allvars

\* C22: turns on different thread ids are isolated: the history stored under a
\* thread id holds only messages of the turns on that id, and a thread on which
\* one turn ran holds what that turn alone leaves, whatever ran on other
\* threads meanwhile
C22_ThreadsIsolated ==
    /\ \A id \in ThreadIds : \A i \in DOMAIN threads[id] :
          reqs[threads[id][i].req].thread = id
    /\ \A r \in Requests :
          (/\ reqs[r].pc = "running" \/ reqs[r].kind \in TurnKinds
           /\ \A o \in Requests \ {r} : reqs[o].thread # reqs[r].thread) =>
              threads[reqs[r].thread] =
                  IF reqs[r].kind = "answer"
                  THEN <<[role |-> "user", req |-> r], [role |-> "ai", req |-> r]>>
                  ELSE <<[role |-> "user", req |-> r]>>

C22_Witness ==
    \E a, b \in Requests :
        /\ reqs[a].thread # reqs[b].thread
        /\ reqs[a].pc = "responded" /\ reqs[a].kind = "answer"
        /\ reqs[b].pc = "running"
        /\ reqs[a].view = <<[role |-> "user", req |-> a]>>
        /\ threads[reqs[b].thread] = <<[role |-> "user", req |-> b]>>
        /\ threads[reqs[a].thread] =
              <<[role |-> "user", req |-> a], [role |-> "ai", req |-> a]>>

\* C23: a turn that failed (tool step error, recursion limit, turn timeout)
\* leaves the stored history of its thread as it was when the turn started
C23_FailedTurnLeavesNoTrace ==
    (cpc = "returned" /\ result.kind \in {"timeout", "workflow", "unexpected"}) =>
        Len(store) = startLen

\* C24: every error object built from the error classes is an Error and an
\* AgentError and carries the code and status of its class, whatever its
\* message: VALIDATION_ERROR/400, MODEL_TIMEOUT/504, WORKFLOW_ERROR/500, and
\* status 500 for an AgentError built without a status
C24_ErrorClassesCarryCodeAndStatus ==
    herr # NoError =>
        /\ {"Error", "AgentError", herr.name} \subseteq herr.instanceOf
        /\ herr.name = "ValidationError" =>
              herr.code = "VALIDATION_ERROR" /\ herr.statusCode = 400
        /\ herr.name = "ModelTimeoutError" =>
              herr.code = "MODEL_TIMEOUT" /\ herr.statusCode = 504
        /\ herr.name = "WorkflowError" =>
              herr.code = "WORKFLOW_ERROR" /\ herr.statusCode = 500
        /\ herr.name = "AgentError" => herr.statusCode \in {500, 404}
        /\ herr \in {AgentError(<<m, "TEST_CODE">>) : m \in Messages} =>
              herr.statusCode = 500

C24_Witness ==
    /\ herr.name = "ModelTimeoutError"
    /\ herr.message = "boom"
    /\ herr.statusCode = 504

\* C26: corsMiddleware sets the three CORS headers on every request; it
\* answers an OPTIONS request with status 200 and does not call next; for any
\* other method it calls next once and sends nothing
C26_CorsMiddleware ==
    res.handler = "corsMiddleware" =>
        /\ res.headers = CorsHeaders
        /\ Cardinality(res.headers) = 3
        /\ IF res.method = "OPTIONS"
           THEN res.status = 200 /\ res.sends = 1 /\ res.nextCalls = 0
           ELSE res.nextCalls = 1 /\ res.sends = 0 /\ res.status = 0

C26_Witness ==
    /\ res.handler = "corsMiddleware"
    /\ res.method = "OPTIONS"
    /\ res.status = 200
    /\ res.nextCalls = 0

\* C27: errorHandler answers with status 500 and error "Internal server
\* error"; the message is the error's own when NODE_ENV is development and
\* "Something went wrong" in every other environment
C27_ErrorHandler ==
    res.handler = "errorHandler" =>
        /\ res.status = 500
        /\ res.sends = 1
        /\ res.body.error = "Internal server error"
        /\ env.NODE_ENV # "development" => res.body.message = "Something went wrong"
        /\ env.NODE_ENV = "development" => res.body.message = res.arg

C27_Witness ==
    /\ res.handler = "errorHandler"
    /\ env.NODE_ENV = ""
    /\ res.arg = "boom"
    /\ res.body.message = "Something went wrong"

\* C28: with a required environment variable missing, the MongoDB client is
\* neither created nor connected, the server never listens, and startup ends
\* with the error that names the missing variables; the server listens only
\* after the validation and the ping succeeded
C28_ValidationBeforeAnythingElse ==
    /\ Len(missingVars(env)) > 0 =>
          /\ boot.client = "none"
          /\ ~boot.listening
          /\ boot.pc \in {"exited", "crashed"} =>
                boot.error = [text |-> "Missing required environment variables",
                              names |-> missingVars(env)]
    /\ boot.listening => boot.validated /\ boot.pinged

\* C29: GET /health answers 200 exactly when the MongoDB check and the Qdrant
\* check both succeeded and 503 otherwise, and reports both checks whichever
\* of them failed
C29_HealthStatus ==
    res.handler = "health" =>
        /\ res.status = 200 <=>
              (res.body.mongo = "healthy" /\ res.body.qdrant = "healthy")
        /\ res.status \in {200, 503}
        /\ res.body.mongo \in {"healthy", "unhealthy"}
        /\ res.body.qdrant \in {"healthy", "unhealthy"}

C29_Witness ==
    /\ res.handler = "health"
    /\ res.body.mongo = "unhealthy"
    /\ res.body.qdrant = "healthy"
    /\ res.status = 503

\* C25: a request whose message is empty or longer than 1000 characters, or
\* whose thread id is longer than 100 characters, is answered 400 without a
\* call of callAgent; for every other request callAgent is called exactly once
C25_RoutesValidateFirst ==
    \A r \in Requests :
        LET q == reqs[r]
            bad == \/ q.mlen < 1
                   \/ q.mlen > MAX_QUERY_LENGTH
                   \/ q.route = "/chat/:threadId" /\ IdLength(q.thread) > MAX_THREAD_ID_LENGTH
        IN  /\ q.calls <= 1
            /\ (q.pc = "responded" /\ bad) => (q.status = 400 /\ q.calls = 0)
            /\ (q.pc \in {"turn", "running", "returned", "responded"} /\ ~bad) => q.calls = 1

C25_Witness ==
    \E a, b \in Requests :
        /\ reqs[a].pc = "responded" /\ reqs[a].mlen = MAX_QUERY_LENGTH + 1
        /\ reqs[a].status = 400 /\ reqs[a].calls = 0
        /\ reqs[b].pc = "responded" /\ reqs[b].mlen = MAX_QUERY_LENGTH
        /\ reqs[b].status = 200 /\ reqs[b].calls = 1

\* C30: every call of callAgent returns, whatever the model, the tools and
\* the checkpoint store do, as long as the timers fire
C30_CallAgentReturns == (cpc = "validate") ~> (cpc = "returned")

C30_Witness ==
    /\ cpc = "returned"
    /\ Len(wfErrs) = MAX_WORKFLOW_RETRIES + 1
    /\ \A i \in DOMAIN wfErrs : wfErrs[i] = WorkflowTimeoutMsg
    /\ ~onlyTimeouts

\* C31: within one call of callAgent at most one graph run is active: a run
\* that lost the race against the turn timeout has no model call due or
\* pending once the next attempt has started its run
C31_OneRunAtATime ==
    Cardinality({i \in DOMAIN runs : runs[i].st \in {"call", "pending"}}) <= 1

\* C32: after callAgent returned the answer of a turn, the stored history
\* holds the user message of that turn exactly once, however many attempts of
\* the turn-level retry were made
C32_UserMessageOnce ==
    (cpc = "returned" /\ result.kind = "answer") =>
        Cardinality({i \in DOMAIN store : store[i] = HumanMessage(turn)}) = 1

\* C33: the stored history of a thread is append-only: what is stored before
\* a step of a turn is a prefix of what is stored after it
C33_HistoryAppendOnly ==
    [][rep' = rep =>
          /\ Len(hist) <= Len(hist')
          /\ \A i \in DOMAIN hist : hist'[i] = hist[i]]_allvars

\* C34: the first node of every graph run is the agent node, every execution
\* of the tools node is followed by the agent node, and the run reaches the
\* end only from the agent node
C34_AgentFirstAndAfterTools ==
    [][/\ (run.st = "none" /\ run'.st # "none") => run'.st \in {"agent", "failed"}
       /\ (run.st = "tools" /\ run' # run) => run'.st \in {"agent", "failed", "none"}
       /\ (run.st # "__end__" /\ run'.st = "__end__") => run.st = "agent"]_allvars

C34_Witness ==
    /\ run.st = "__end__"
    /\ run.steps = 3
    /\ \E i \in DOMAIN run.msgs : run.msgs[i].role = "tool"
    /\ Last(run.msgs).role = "ai"

\* C35: two requests that start a new conversation never get the same thread
\* id, also when they are handled at the same value of the clock
C35_NewThreadIdsDistinct ==
    \A a, b \in Requests :
        (/\ a # b
         /\ reqs[a].route = "/chat" /\ reqs[b].route = "/chat"
         /\ reqs[a].thread # 0 /\ reqs[b].thread # 0) =>
            reqs[a].thread # reqs[b].thread

\* C36: the chat client has at most one request in flight, its loading flag
\* is clear when no request is in flight, and a message sent when a thread id
\* has been received is posted to that thread
C36_OneRequestInFlight ==
    /\ Len(flight) <= 1
    /\ flight = <<>> => ~cstate.isLoading
    /\ \A k \in DOMAIN flight :
          flight[k].known # 0 => flight[k].endpoint = flight[k].known

\* C37: the route schemas and validateInputs accept the same message and
\* thread id: no request that passes the schemas has the validation outcome,
\* and a request the schemas reject would also be rejected by validateInputs
C37_SchemasMatchValidateInputs ==
    \A r \in Requests :
        /\ reqs[r].kind # "validation"
        /\ (reqs[r].pc = "responded" /\ reqs[r].status = 400 /\ reqs[r].calls = 0) =>
              validateInputs(reqs[r].mlen,
                             IF reqs[r].route = "/chat" THEN IdLength(clock)
                             ELSE IdLength(reqs[r].thread)) # ValidMsg

C37_Witness ==
    \E a, b \in Requests :
        /\ reqs[a].pc = "turn"
        /\ reqs[a].route = "/chat/:threadId"
        /\ reqs[a].mlen = MAX_QUERY_LENGTH
        /\ reqs[a].thread = MaxLengthId
        /\ reqs[b].pc = "responded" /\ reqs[b].status = 400
        /\ reqs[b].thread = LongId

====
